---------------------------- MODULE Spec2Model ----------------------------
(***************************************************************************)
(* A model of the markdown previewer of BoostNote.next-local               *)
(* (src/src/components/atoms/MarkdownPreviewer.tsx).                       *)
(*                                                                         *)
(* The component is modelled at the grain of its callbacks: a change of    *)
(* the props by the parent, the passive effect that follows every commit   *)
(* (the "render requested" effect), the 'codemirror-mode-load' listener,   *)
(* the continuation of renderContent after its await, a click on a         *)
(* rendered anchor and the settling of its note lookup.  The effects of a  *)
(* commit run before the next event is handled (React flushes passive      *)
(* effects before it processes anything else), which effectPending         *)
(* encodes.                                                                *)
(***************************************************************************)
EXTENDS Naturals, Integers, Sequences, FiniteSets, TLC

(***************************************************************************)
(* Bounds of the model.                                                    *)
(***************************************************************************)
MaxBlocks == 3   \* longest document, in blocks
MaxEvents == 3   \* prop changes, signals and unmounts in one behaviour

(***************************************************************************)
(* Values.  A document source is a sequence of blocks: "p" is a paragraph  *)
(* and "cb" a task-list item ("- [ ] a"), which the pipeline turns into an *)
(* <input type="checkbox">.  The empty sequence is the empty string.       *)
(***************************************************************************)
BlockAt(k) == IF k % 2 = 1 THEN "cb" ELSE "p"

\* The documents the caller passes: a task list interleaved with paragraphs,
\* cut after 0..MaxBlocks blocks.
Contents == {[k \in 1..n |-> BlockAt(k)] : n \in 0..MaxBlocks}

\* codeBlockTheme?: string  -- the prop may be left out (undefined)
Undefined == "undefined"

CodeBlockThemes == {Undefined, "", "monokai"}

\* theme?: string and style?: string, the presentation props
Themes == {"light", "dark"}

Styles == {"", "zoom"}

\* The chain with the sanitizer attached before the raw-markup merge.
markdownProcessor_SanitizeBeforeRaw ==
  << "remarkParse", "remarkEmoji", "remarkAdmonitions", "remarkMath",
     "remarkPlantUML", "remarkCharts", "remarkRehype", "rehypeSanitize",
     "rehypeRaw", "remarkSlug", "rehypePosition", "rehypeKatex",
     "rehypeCodeMirror", "rehypeMermaid", "rehypeReact" >>

\* The chain with the raw-markup merge attached after the sanitizer.
markdownProcessor_RawAfterSanitize ==
  << "remarkParse", "remarkEmoji", "remarkAdmonitions", "remarkMath",
     "remarkPlantUML", "remarkCharts", "remarkRehype", "remarkSlug",
     "rehypePosition", "rehypeSanitize", "rehypeKatex", "rehypeRaw",
     "rehypeCodeMirror", "rehypeMermaid", "rehypeReact" >>

(***************************************************************************)
(* markdownProcessor: the plugins in the order of the .use() calls.        *)
(***************************************************************************)
markdownProcessor ==
  << "remarkParse", "remarkEmoji", "remarkAdmonitions", "remarkMath",
     "remarkPlantUML", "remarkCharts", "remarkRehype", "rehypeRaw",
     "remarkSlug", "rehypePosition", "rehypeSanitize", "rehypeKatex",
     "rehypeCodeMirror", "rehypeMermaid", "rehypeReact" >>

\* unified runs the attached plugins one after the other, first to last.
RECURSIVE RunPlugins(_, _, _)
RunPlugins(chain, i, log) ==
  IF i > Len(chain) THEN log
  ELSE RunPlugins(chain, i + 1, Append(log, chain[i]))

\* markdownProcessor.process(content): the element tree of one pipeline run.
\* rehypeCodeMirror is configured with the codeBlockTheme of the render that
\* built the processor; every block of the source becomes one element.  The
\* sources of the model hold no note links, which removePrefixFromNoteLinks
\* would rewrite before the processor runs.
Process(src, cbTheme) ==
  [ src    |-> src,
    theme  |-> cbTheme,
    stages |-> RunPlugins(markdownProcessor, 1, <<>>) ]

\* useState<React.ReactNode>([]): nothing rendered yet
NoTree == [src |-> <<>>, theme |-> "", stages |-> <<>>]

VARIABLES
  content,             \* prop content
  codeBlockTheme,      \* prop codeBlockTheme
  theme,               \* prop theme
  style,               \* prop style
  mounted,             \* the component is mounted
  rendering,           \* useState(false)
  renderedContent,     \* useState([]): the displayed element tree
  previousContentRef,  \* useRef('')
  previousThemeRef,    \* useRef('')
  checkboxIndexRef,    \* useRef(0)
  checkboxes,          \* index prop of the mounted MarkdownCheckbox components, in document order
  runs,                \* renderContent calls suspended at their await, in start order
  effectPending,       \* a commit happened whose effects have not run yet
  started,             \* number of calls of markdownProcessor.process so far
  events,              \* number of external events so far
  ev,                  \* the callback that produced the current state
  activeStorageId,     \* useActiveStorageId(), as captured by navigateToNote
  storageMap,          \* useDb().storageMap, in the order of values(storageMap)
  clicks,              \* the hrefs of the anchors clicked so far
  calls,               \* the getNotePathname calls made so far
  replaced,            \* router: the replace() calls made so far
  toasts,              \* toast store: the pushMessage() calls made so far
  opened,              \* platform: the openNew() calls made so far
  imgSrc,              \* src of the img node handed to components.img
  attachmentMap,       \* prop attachmentMap
  imgElement           \* the element components.img returned

ctlVars ==
  << content, codeBlockTheme, theme, style, mounted, rendering, renderedContent,
     previousContentRef, previousThemeRef, checkboxIndexRef, checkboxes, runs,
     effectPending, started, events, ev >>

linkVars ==
  << activeStorageId, storageMap, clicks, calls, replaced, toasts, opened >>

imgVars == << imgSrc, attachmentMap, imgElement >>

VARIABLES
  prefsArg,            \* the preferences handed to savePreferences
  localStorageItem,    \* localLiteStorage: the text stored under preferencesKey
  loadedPreferences,   \* what loadPreferences returned
  pstep,               \* the last of savePreferences / loadPreferences that ran
  preferences,         \* useSetState: the preferences state of the store
  keymap,              \* mergedPreferences['general.keymap'], the entries of the Map
  tab,                 \* useState('about')
  closed,              \* useState(true)
  stored,              \* localLiteStorage as the store's save effect leaves it
  sent,                \* the 'menuAcceleratorChanged' messages the last callback sent
  saveDue,             \* the preferences changed and the save effect has not run yet
  call,                \* the last callback of the store and its arguments
  result,              \* what the last callback returned
  storage,             \* prop storage: folderMap and noteMap
  folderPathname,      \* prop folderPathname
  noteSorting,         \* preferences['general.noteSorting']
  notes,               \* the value of the notes memo
  listed               \* the notes memo has been computed

prefVars == << prefsArg, localStorageItem, loadedPreferences, pstep >>

storeVars ==
  << preferences, keymap, tab, closed, stored, sent, saveDue, call, result >>

folderVars == << storage, folderPathname, noteSorting, notes, listed >>

appVars == << prefVars, storeVars, folderVars >>

vars == << ctlVars, linkVars, imgVars, appVars >>

(***************************************************************************)
(* Helpers over sequences.                                                 *)
(***************************************************************************)
RemoveAt(s, i) == [j \in 1..(Len(s) - 1) |-> IF j < i THEN s[j] ELSE s[j + 1]]

\* number of checkbox inputs among the first i blocks
RECURSIVE CountBoxes(_, _)
CountBoxes(src, i) ==
  IF i = 0 THEN 0
  ELSE CountBoxes(src, i - 1) + (IF src[i] = "cb" THEN 1 ELSE 0)

(***************************************************************************)
(* components.input: React calls the function once for every input element *)
(* of a tree when it mounts the tree, in document order; a checkbox takes  *)
(* checkboxIndexRef.current++ as its index.                                *)
(***************************************************************************)
MountIndices(tree, counter) ==
  [k \in 1..CountBoxes(tree.src, Len(tree.src)) |-> counter + (k - 1)]

CounterAfterMount(tree, counter) == counter + CountBoxes(tree.src, Len(tree.src))

(***************************************************************************)
(* The state after construction: mounted with the props of the first       *)
(* render, whose effects have not run yet.                                 *)
(***************************************************************************)
InitCtl ==
  /\ content \in Contents
  /\ codeBlockTheme \in CodeBlockThemes
  /\ theme = "light"
  /\ style = ""
  /\ mounted = TRUE
  /\ rendering = FALSE
  /\ renderedContent = NoTree
  /\ previousContentRef = <<>>
  /\ previousThemeRef = ""
  /\ checkboxIndexRef = 0
  /\ checkboxes = <<>>
  /\ runs = <<>>
  /\ effectPending = TRUE
  /\ started = 0
  /\ events = 0
  /\ ev = "mount"

\* renderContent up to its await: reads the ref, sets the flag, resets the
\* checkbox counter and starts the processor built by the current render.
RenderContentStart(src) ==
  /\ rendering' = TRUE
  /\ checkboxIndexRef' = 0
  /\ runs' = Append(runs, Process(src, codeBlockTheme))
  /\ started' = started + 1

\* The parent renders the previewer with another content or codeBlockTheme.
SetProps(c, t) ==
  /\ mounted /\ ~effectPending /\ events < MaxEvents
  /\ UNCHANGED << linkVars, imgVars, appVars >>
  /\ <<c, t>> # <<content, codeBlockTheme>>
  /\ content' = c
  /\ codeBlockTheme' = t
  /\ effectPending' = TRUE
  /\ events' = events + 1
  /\ ev' = "props"
  /\ UNCHANGED << theme, style, mounted, rendering, renderedContent,
                  previousContentRef, previousThemeRef, checkboxIndexRef,
                  checkboxes, runs, started >>

\* The parent changes theme: the class of the inner div changes, the
\* rendered tree below it is the same element and is left alone.
SetTheme(th) ==
  /\ mounted /\ ~effectPending /\ events < MaxEvents
  /\ UNCHANGED << linkVars, imgVars, appVars >>
  /\ th # theme
  /\ theme' = th
  /\ effectPending' = TRUE
  /\ events' = events + 1
  /\ ev' = "theme"
  /\ UNCHANGED << content, codeBlockTheme, style, mounted, rendering,
                  renderedContent, previousContentRef, previousThemeRef,
                  checkboxIndexRef, checkboxes, runs, started >>

\* The parent changes style: StyledContainer is a new component type, so
\* React unmounts the subtree and mounts renderedContent again, which calls
\* components.input for every input of the tree.
SetStyle(st) ==
  /\ mounted /\ ~effectPending /\ events < MaxEvents
  /\ UNCHANGED << linkVars, imgVars, appVars >>
  /\ st # style
  /\ style' = st
  /\ checkboxes' = MountIndices(renderedContent, checkboxIndexRef)
  /\ checkboxIndexRef' = CounterAfterMount(renderedContent, checkboxIndexRef)
  /\ effectPending' = TRUE
  /\ events' = events + 1
  /\ ev' = "style"
  /\ UNCHANGED << content, codeBlockTheme, theme, mounted, rendering,
                  renderedContent, previousContentRef, previousThemeRef,
                  runs, started >>

\* The guard without the comparison with the refs.
RequestSkipped_FlagOnly == rendering

\* The guard without the test of the rendering flag.
RequestSkipped_RefsOnly ==
  previousThemeRef = codeBlockTheme /\ previousContentRef = content

\* The guard of the "render requested" effect: its early return.
RequestSkipped ==
  \/ (previousThemeRef = codeBlockTheme /\ previousContentRef = content)
  \/ rendering

\* The "render requested" effect, run after every commit.
RequestEffect ==
  /\ mounted /\ effectPending
  /\ UNCHANGED << linkVars, imgVars, appVars >>
  /\ effectPending' = FALSE
  /\ ev' = "request"
  /\ IF RequestSkipped
     THEN UNCHANGED << rendering, previousContentRef, previousThemeRef,
                       checkboxIndexRef, runs, started >>
     ELSE /\ previousContentRef' = content
          /\ previousThemeRef' = codeBlockTheme
          /\ RenderContentStart(content)
  /\ UNCHANGED << content, codeBlockTheme, theme, style, mounted,
                  renderedContent, checkboxes, events >>

\* A listener that goes through the guard of the request effect.
Signal_Guarded ==
  /\ mounted /\ ~effectPending /\ events < MaxEvents
  /\ UNCHANGED << linkVars, imgVars, appVars >>
  /\ IF RequestSkipped
     THEN UNCHANGED << rendering, checkboxIndexRef, runs, started, effectPending >>
     ELSE RenderContentStart(previousContentRef) /\ effectPending' = ~rendering
  /\ events' = events + 1
  /\ ev' = "signal"
  /\ UNCHANGED << content, codeBlockTheme, theme, style, mounted,
                  renderedContent, previousContentRef, previousThemeRef,
                  checkboxes >>

\* window 'codemirror-mode-load': the listener is renderContent itself.
\* setRendering(true) commits only when the flag was false.
Signal ==
  /\ mounted /\ ~effectPending /\ events < MaxEvents
  /\ UNCHANGED << linkVars, imgVars, appVars >>
  /\ RenderContentStart(previousContentRef)
  /\ effectPending' = ~rendering
  /\ events' = events + 1
  /\ ev' = "signal"
  /\ UNCHANGED << content, codeBlockTheme, theme, style, mounted,
                  renderedContent, previousContentRef, previousThemeRef,
                  checkboxes >>

\* The continuation applying its state updates to an unmounted view as well.
Complete_IgnoresUnmount(i) ==
  /\ ~effectPending
  /\ UNCHANGED << linkVars, imgVars, appVars >>
  /\ i \in 1..Len(runs)
  /\ runs' = RemoveAt(runs, i)
  /\ ev' = "complete"
  /\ rendering' = FALSE
  /\ renderedContent' = runs[i]
  /\ checkboxes' = MountIndices(runs[i], checkboxIndexRef)
  /\ checkboxIndexRef' = CounterAfterMount(runs[i], checkboxIndexRef)
  /\ effectPending' = mounted
  /\ UNCHANGED << content, codeBlockTheme, theme, style, mounted,
                  previousContentRef, previousThemeRef, started, events >>

\* renderContent after its await, for the i-th suspended call: the flag is
\* cleared and the result becomes renderedContent; React renders the new
\* tree, calling components.input for each of its inputs.  The two setState
\* calls are taken as one commit.  On an unmounted component both do nothing.
Complete(i) ==
  /\ ~effectPending
  /\ UNCHANGED << linkVars, imgVars, appVars >>
  /\ i \in 1..Len(runs)
  /\ runs' = RemoveAt(runs, i)
  /\ ev' = "complete"
  /\ IF mounted
     THEN /\ rendering' = FALSE
          /\ renderedContent' = runs[i]
          /\ checkboxes' = MountIndices(runs[i], checkboxIndexRef)
          /\ checkboxIndexRef' = CounterAfterMount(runs[i], checkboxIndexRef)
          /\ effectPending' = TRUE
     ELSE UNCHANGED << rendering, renderedContent, checkboxes,
                       checkboxIndexRef, effectPending >>
  /\ UNCHANGED << content, codeBlockTheme, theme, style, mounted,
                  previousContentRef, previousThemeRef, started, events >>

\* The view unmounts: the listener is removed and no effect runs any more.
Unmount ==
  /\ mounted /\ ~effectPending /\ events < MaxEvents
  /\ UNCHANGED << linkVars, imgVars, appVars >>
  /\ mounted' = FALSE
  /\ events' = events + 1
  /\ ev' = "unmount"
  /\ UNCHANGED << content, codeBlockTheme, theme, style, rendering,
                  renderedContent, previousContentRef, previousThemeRef,
                  checkboxIndexRef, checkboxes, runs, effectPending, started >>

CtlNext ==
  \/ \E c \in Contents, t \in CodeBlockThemes : SetProps(c, t)
  \/ \E th \in Themes : SetTheme(th)
  \/ \E st \in Styles : SetStyle(st)
  \/ RequestEffect
  \/ Signal
  \/ \E i \in 1..Len(runs) : Complete(i)
  \/ Unmount

(***************************************************************************)
(* components.a and navigateToNote.                                        *)
(***************************************************************************)
MaxStorages == 2   \* storages in storageMap
MaxClicks == 2     \* clicks in one behaviour

\* !activeStorageId
NoStorage == 0

StorageIds == 1..MaxStorages

NoteIds == {"X"}

\* prependNoteIdPrefix(noteId): the key of the note in a noteMap
PrependNoteIdPrefix(noteId) == << "note:", noteId >>

\* the hrefs an anchor can carry: none, a note link, any other url
Hrefs ==
  {[kind |-> "empty", id |-> ""]}
    \cup {[kind |-> "note", id |-> n] : n \in NoteIds}
    \cup {[kind |-> "url", id |-> "https://example.com"]}

IsNoteLinkId(href) == href.kind = "note"

\* a storage: its id and the keys of its noteMap
Storages ==
  [id : StorageIds, noteMap : SUBSET {PrependNoteIdPrefix(n) : n \in NoteIds}]

\* the storage maps: storages with distinct ids, in insertion order
StorageMaps ==
  {m \in UNION {[1..n -> Storages] : n \in 0..MaxStorages} :
     \A i, j \in 1..Len(m) : m[i].id = m[j].id => i = j}

\* how a getNotePathname promise can settle: with a pathname, with no
\* pathname, or rejected
PathnameOutcomes == {"pathname", "none", "reject"}

\* the pathname getNotePathname resolves to for a note of a storage
PathnameOf(storageId, noteKey) == << "path", storageId, noteKey >>

InitLink ==
  /\ activeStorageId \in StorageIds \cup {NoStorage}
  /\ storageMap \in StorageMaps
  /\ clicks = <<>>
  /\ calls = <<>>
  /\ replaced = <<>>
  /\ toasts = <<>>
  /\ opened = <<>>

\* the for loop of navigateToNote over values(storageMap), from the i-th
\* storage on: the first storage whose noteMap has the note, else the
\* value noteStorageId had before the loop
RECURSIVE ScanStorages(_, _, _, _)
ScanStorages(smap, i, noteKey, noteStorageId) ==
  IF i > Len(smap) THEN noteStorageId
  ELSE IF noteKey \in smap[i].noteMap THEN smap[i].id
  ELSE ScanStorages(smap, i + 1, noteKey, noteStorageId)

\* navigateToNote(noteId), up to the call of getNotePathname
NavigateToNote(c, noteId) ==
  IF activeStorageId = NoStorage
  THEN /\ toasts' = Append(toasts, [click |-> c, title |-> "Invalid navigation!"])
       /\ UNCHANGED calls
  ELSE /\ calls' = Append(calls,
            [ click   |-> c,
              noteId  |-> noteId,
              storage |-> ScanStorages(storageMap, 1, PrependNoteIdPrefix(noteId),
                                       activeStorageId),
              outcome |-> "pending" ])
       /\ UNCHANGED toasts

\* onClick of a rendered anchor
Click(href) ==
  /\ Len(clicks) < MaxClicks
  /\ UNCHANGED << ctlVars, imgVars, appVars >>
  /\ clicks' = Append(clicks, href)
  /\ IF href.kind = "empty"
     THEN UNCHANGED << calls, toasts, opened >>
     ELSE IF IsNoteLinkId(href)
          THEN NavigateToNote(Len(clicks) + 1, href.id) /\ UNCHANGED opened
          ELSE /\ opened' = Append(opened, [click |-> Len(clicks) + 1, href |-> href.id])
               /\ UNCHANGED << calls, toasts >>
  /\ UNCHANGED << activeStorageId, storageMap, replaced >>

\* The handlers without the test of the pathname: whatever the promise
\* resolves to is navigated to, and only a rejection is reported.
Settle_NoPathnameTest(k, outcome) ==
  /\ k \in 1..Len(calls)
  /\ UNCHANGED << ctlVars, imgVars, appVars >>
  /\ calls[k].outcome = "pending"
  /\ calls' = [calls EXCEPT ![k].outcome = outcome]
  /\ IF outcome # "reject"
     THEN /\ replaced' = Append(replaced,
               [ click    |-> calls[k].click,
                 storage  |-> calls[k].storage,
                 pathname |-> PathnameOf(calls[k].storage,
                                         PrependNoteIdPrefix(calls[k].noteId)),
                 noteId   |-> calls[k].noteId ])
          /\ UNCHANGED toasts
     ELSE /\ toasts' = Append(toasts,
               [click |-> calls[k].click, title |-> "Note link invalid!"])
          /\ UNCHANGED replaced
  /\ UNCHANGED << activeStorageId, storageMap, clicks, opened >>

\* the handlers attached to the promise of the k-th getNotePathname call
Settle(k, outcome) ==
  /\ k \in 1..Len(calls)
  /\ UNCHANGED << ctlVars, imgVars, appVars >>
  /\ calls[k].outcome = "pending"
  /\ calls' = [calls EXCEPT ![k].outcome = outcome]
  /\ IF outcome = "pathname"
     THEN /\ replaced' = Append(replaced,
               [ click    |-> calls[k].click,
                 storage  |-> calls[k].storage,
                 pathname |-> PathnameOf(calls[k].storage,
                                         PrependNoteIdPrefix(calls[k].noteId)),
                 noteId   |-> calls[k].noteId ])
          /\ UNCHANGED toasts
     ELSE /\ toasts' = Append(toasts,
               [click |-> calls[k].click, title |-> "Note link invalid!"])
          /\ UNCHANGED replaced
  /\ UNCHANGED << activeStorageId, storageMap, clicks, opened >>

LinkNext ==
  \/ \E href \in Hrefs : Click(href)
  \/ \E k \in 1..Len(calls), outcome \in PathnameOutcomes : Settle(k, outcome)

(***************************************************************************)
(* components.img.                                                         *)
(***************************************************************************)
MaxSrcLen == 2        \* longest src, in characters
MaxAttachments == 2   \* most entries of attachmentMap

\* src is absent
NoSrc == << "null" >>

\* the names every object inherits from Object.prototype
ObjectPrototypeKeys == {<< "constructor" >>}

\* the strings: sequences of characters, and the inherited names
Strings ==
  UNION {[1..n -> {"a", "/"}] : n \in 0..MaxSrcLen} \cup ObjectPrototypeKeys

\* the attachment maps: their own keys (an entry's value is its attachment)
AttachmentMaps == {m \in SUBSET Strings : Cardinality(m) <= MaxAttachments}

\* src.match('/')
HasSlash(src) == \E k \in 1..Len(src) : src[k] = "/"

\* attachmentMap[src] on a plain object: an own entry, else what the
\* prototype chain holds under that name, else undefined
Lookup(amap, key) ==
  IF key \in amap THEN [kind |-> "attachment", key |-> key]
  ELSE IF key \in ObjectPrototypeKeys THEN [kind |-> "inherited", key |-> key]
  ELSE [kind |-> Undefined, key |-> key]

\* components.img({src, ...props})
Img(src, amap) ==
  IF src # NoSrc /\ ~HasSlash(src) /\ Lookup(amap, src).kind # Undefined
  THEN [component |-> "AttachmentImage", attachment |-> Lookup(amap, src), src |-> NoSrc]
  ELSE [component |-> "ExpandableImage",
        attachment |-> [kind |-> Undefined, key |-> src], src |-> src]

NoElement ==
  [component |-> "none", attachment |-> [kind |-> Undefined, key |-> NoSrc], src |-> NoSrc]

InitImg ==
  /\ imgSrc \in Strings \cup {NoSrc}
  /\ attachmentMap \in AttachmentMaps
  /\ imgElement = NoElement

\* React renders the img node
RenderImg ==
  /\ imgElement = NoElement
  /\ UNCHANGED << ctlVars, linkVars, appVars >>
  /\ imgElement' = Img(imgSrc, attachmentMap)
  /\ UNCHANGED << imgSrc, attachmentMap >>

ImgNext == RenderImg

(***************************************************************************)
(* The preferences store (src/src/lib/preferences.ts).                     *)
(*                                                                         *)
(* A JavaScript value is a record tagged with its type, a JSON text a      *)
(* record tagged with its syntax: savePreferences and loadPreferences      *)
(* convert between the two.  Of the preferences, 'general.keymap' and      *)
(* 'general.noteSorting' are kept; the other entries are strings and       *)
(* numbers that are stored and read like 'general.noteSorting'.            *)
(***************************************************************************)
MaxKeys == 2   \* most entries of a keymap handed to savePreferences

\* a property an object does not have, a member a JSON text does not have
Absent == "absent"

\* a stroke (KeymapItemEditableProps): its key, and its modifiers if any
Stroke(k, m) == [type |-> "object", key |-> k, modifiers |-> m]

UndefinedStroke == [type |-> Undefined, key |-> Absent, modifiers |-> Absent]

\* the shortcuts the keymap editor passes as the first shortcut
Shortcuts == {Stroke(k, m) : k \in {"a", "b"}, m \in {Absent, "ctrl"}}

\* secondShortcut?: left out, or a second stroke
SecondShortcuts == {UndefinedStroke, Stroke("c", Absent)}

\* { ...a, ...b }: the properties of b, then those a has and b has not
Spread(a, b) ==
  [type |-> "object",
   key |-> IF b.key # Absent THEN b.key ELSE a.key,
   modifiers |-> IF b.modifiers # Absent THEN b.modifiers ELSE a.modifiers]

\* a KeymapItem
Item(d, menu, main, second) ==
  [description |-> d, isMenuType |-> menu,
   shortcutMainStroke |-> main, shortcutSecondStroke |-> second]

\* the values of 'general.keymap'.  A Map holds its entries in insertion
\* order and has no property of its own; a plain object holds the members
\* it was parsed from.
JsUndefined == [type |-> Undefined, dataType |-> Absent, entries |-> << >>]

JsNull == [type |-> "null", dataType |-> Absent, entries |-> << >>]

JsMap(entries) == [type |-> "Map", dataType |-> Absent, entries |-> entries]

JsObject(dataType, entries) ==
  [type |-> "object", dataType |-> dataType, entries |-> entries]

\* Map.prototype.has / get / set
MapHas(entries, key) == \E i \in 1..Len(entries) : entries[i].key = key

MapGet(entries, key) ==
  entries[CHOOSE i \in 1..Len(entries) : entries[i].key = key].item

MapSet(entries, key, item) ==
  IF MapHas(entries, key)
  THEN [i \in 1..Len(entries) |->
          IF entries[i].key = key THEN [key |-> key, item |-> item] ELSE entries[i]]
  ELSE Append(entries, [key |-> key, item |-> item])

\* function replacer(key, value)
replacer(value) ==
  IF value.type = "Map" /\ Len(value.entries) > 0
  THEN JsObject("Map", value.entries)
  ELSE value

\* JSON.stringify of a stroke: a property whose value is undefined is left out
StrokeText(stroke) ==
  IF stroke.type = Undefined
  THEN [json |-> Absent, key |-> Absent, modifiers |-> Absent]
  ELSE [json |-> "object", key |-> stroke.key, modifiers |-> stroke.modifiers]

ItemText(item) ==
  [description |-> item.description, isMenuType |-> item.isMenuType,
   shortcutMainStroke |-> StrokeText(item.shortcutMainStroke),
   shortcutSecondStroke |-> StrokeText(item.shortcutSecondStroke)]

\* JSON.stringify of the value the replacer returned: undefined leaves the
\* member out, a Map has no enumerable property and is written as {}
ValueText(value) ==
  IF value.type = Undefined
  THEN [json |-> Absent, dataType |-> Absent, value |-> << >>]
  ELSE IF value.type = "null"
  THEN [json |-> "null", dataType |-> Absent, value |-> << >>]
  ELSE IF value.type = "Map"
  THEN [json |-> "object", dataType |-> Absent, value |-> << >>]
  ELSE [json |-> "object", dataType |-> value.dataType,
        value |-> [i \in 1..Len(value.entries) |->
                     [key |-> value.entries[i].key,
                      item |-> ItemText(value.entries[i].item)]]]

\* JSON.stringify(preferences, replacer)
Stringify(prefs) ==
  [text |-> "json",
   noteSorting |-> IF prefs.noteSorting = Undefined THEN Absent ELSE prefs.noteSorting,
   keymap |-> ValueText(replacer(prefs.keymap))]

\* localLiteStorage.getItem returned null
NoItem ==
  [text |-> "none", noteSorting |-> Absent,
   keymap |-> [json |-> Absent, dataType |-> Absent, value |-> << >>]]

\* a stored text JSON.parse rejects
InvalidItem ==
  [text |-> "invalid", noteSorting |-> Absent,
   keymap |-> [json |-> Absent, dataType |-> Absent, value |-> << >>]]

\* JSON.parse of a stroke; reading a member the text has not gives undefined
ParseStroke(text) ==
  IF text.json = Absent THEN UndefinedStroke ELSE Stroke(text.key, text.modifiers)

ParseItem(text) ==
  Item(text.description, text.isMenuType,
       ParseStroke(text.shortcutMainStroke), ParseStroke(text.shortcutSecondStroke))

ParseEntries(value) ==
  [i \in 1..Len(value) |-> [key |-> value[i].key, item |-> ParseItem(value[i].item)]]

\* function reviver(key, value), applied to the parsed member
reviver(text) ==
  IF text.json = Absent THEN JsUndefined
  ELSE IF text.json = "null" THEN JsNull
  ELSE IF text.dataType = "Map" THEN JsMap(ParseEntries(text.value))
  ELSE JsObject(text.dataType, ParseEntries(text.value))

\* {}
EmptyPreferences == [noteSorting |-> Undefined, keymap |-> JsUndefined]

\* function loadPreferences(): the catch turns a text JSON.parse rejects
\* into {}, so the function returns on every stored text
loadPreferences(item) ==
  IF item.text = "none" THEN EmptyPreferences
  ELSE IF item.text = "invalid" THEN EmptyPreferences
  ELSE [noteSorting |-> IF item.noteSorting = Absent THEN Undefined ELSE item.noteSorting,
        keymap |-> reviver(item.keymap)]

\* function savePreferences(preferences)
savePreferences(prefs) == Stringify(prefs)

\* the keymap keys, the items and the Maps handed to savePreferences
SavedItems ==
  {Item("d", menu, main, UndefinedStroke) :
     menu \in BOOLEAN, main \in {UndefinedStroke, Stroke("a", "ctrl"), Stroke("b", Absent)}}

SavedMaps ==
  UNION {[1..n -> SavedItems] : n \in 0..MaxKeys}

EntriesOf(items) == [i \in 1..Len(items) |-> [key |-> i, item |-> items[i]]]

SavedPreferences ==
  {[noteSorting |-> ns, keymap |-> km] :
     ns \in {Undefined, "title-asc"},
     km \in {JsNull} \cup {JsMap(EntriesOf(items)) : items \in SavedMaps}}

InitPref ==
  /\ prefsArg \in SavedPreferences
  /\ localStorageItem \in {NoItem, InvalidItem}
  /\ loadedPreferences = EmptyPreferences
  /\ pstep = "init"

\* savePreferences(prefsArg)
SavePreferences ==
  /\ pstep = "init"
  /\ localStorageItem' = savePreferences(prefsArg)
  /\ pstep' = "saved"
  /\ UNCHANGED << prefsArg, loadedPreferences >>
  /\ UNCHANGED << ctlVars, linkVars, imgVars, storeVars, folderVars >>

\* loadPreferences(), of what was stored before or of what was just saved
LoadPreferences ==
  /\ pstep \in {"init", "saved"}
  /\ loadedPreferences' = loadPreferences(localStorageItem)
  /\ pstep' = IF pstep = "saved" THEN "reloaded" ELSE "loaded"
  /\ UNCHANGED << prefsArg, localStorageItem >>
  /\ UNCHANGED << ctlVars, linkVars, imgVars, storeVars, folderVars >>

PrefNext == SavePreferences \/ LoadPreferences

(***************************************************************************)
(* usePreferencesStore.  A callback runs to its end, and the render that   *)
(* follows a setPreferences recomputes mergedPreferences, in one step; the *)
(* save effect of that render runs before the next callback.               *)
(***************************************************************************)
\* the keys of the keymap, and the keys the editor may ask for
DefaultKeys == {1, 2}

CallKeys == DefaultKeys \cup {3}

\* defaultKeymap (./keymap): a menu entry and an editor entry
DefaultKeymap ==
  << [key |-> 1, item |-> Item("d1", TRUE, Stroke("a", "ctrl"), UndefinedStroke)],
     [key |-> 2, item |-> Item("d2", FALSE, Stroke("b", Absent), UndefinedStroke)] >>

\* isMenuKeymap(keymapItem) (./keymap)
IsMenuKeymap(item) == item.isMenuType

\* getMenuAcceleratorForKeymapItem(keymapItem) (./keymap): the accelerator
\* is written from the main stroke
GetMenuAcceleratorForKeymapItem(item) == item.shortcutMainStroke

\* findExistingShortcut(key, shortcut, keymap) (./keymap): another entry
\* has this shortcut as its main stroke
FindExistingShortcut(key, shortcut, entries) ==
  \E i \in 1..Len(entries) :
    /\ entries[i].key # key
    /\ entries[i].item.shortcutMainStroke.type # Undefined
    /\ entries[i].item.shortcutMainStroke.key = shortcut.key
    /\ entries[i].item.shortcutMainStroke.modifiers = shortcut.modifiers

\* mergedPreferences['general.keymap']: a new Map (the base keymap is null)
\* that receives the entries of the preferences' keymap; forEach of a value
\* that is not a Map throws, and the catch leaves the new Map empty
MergedKeymap(prefs) ==
  IF prefs.keymap.type = "Map" THEN prefs.keymap.entries ELSE << >>

\* the tabs of the preferences modal
Tabs == {"about", "keymap", "editor"}

\* the values FolderDetail and the preferences modal set 'general.noteSorting' to
StoredSortings == {"title-asc", "updated-date-dsc"}

NoCall ==
  [op |-> "none", key |-> 0, first |-> UndefinedStroke,
   second |-> UndefinedStroke, tab |-> "", closed |-> TRUE]

CallOf(op) == [NoCall EXCEPT !.op = op]

\* what localLiteStorage holds when the store is constructed
StoredInitially ==
  {NoItem, InvalidItem,
   savePreferences([noteSorting |-> "title-asc", keymap |-> JsMap(DefaultKeymap)])}

InitStore ==
  /\ stored \in StoredInitially
  /\ preferences = loadPreferences(stored)
  /\ keymap = MergedKeymap(preferences)
  /\ tab = "about"
  /\ closed = TRUE
  /\ sent = << >>
  /\ saveDue = TRUE
  /\ call = NoCall
  /\ result = "none"

RECURSIVE MenuEntries(_, _)
\* loadKeymaps(): one message for every menu entry of the merged keymap
MenuEntries(entries, i) ==
  IF i > Len(entries) THEN << >>
  ELSE (IF IsMenuKeymap(entries[i].item)
        THEN << [key |-> entries[i].key,
                 accelerator |-> GetMenuAcceleratorForKeymapItem(entries[i].item)] >>
        ELSE << >>) \o MenuEntries(entries, i + 1)

\* useEffect(() => { savePreferences(preferences); loadKeymaps() })
SaveEffect ==
  /\ saveDue
  /\ stored' = savePreferences(preferences)
  /\ sent' = MenuEntries(keymap, 1)
  /\ saveDue' = FALSE
  /\ call' = CallOf("effect")
  /\ result' = "none"
  /\ UNCHANGED << preferences, keymap, tab, closed >>
  /\ UNCHANGED << ctlVars, linkVars, imgVars, prefVars, folderVars >>

\* the item updateKeymap writes
UpdatedItem(item, first, second) ==
  Item(item.description, item.isMenuType,
       Spread(item.shortcutMainStroke, first),
       IF second.type # Undefined
       THEN Spread(item.shortcutSecondStroke, second)
       ELSE UndefinedStroke)

\* updateKeymap with the entry written before the key is looked up
UpdateKeymap_SetsBeforeLookup(key, first, second) ==
  /\ ~saveDue
  /\ call' = [CallOf("updateKeymap") EXCEPT !.key = key, !.first = first, !.second = second]
  /\ IF FindExistingShortcut(key, first, keymap)
     THEN /\ result' = "rejected"
          /\ sent' = << >>
          /\ UNCHANGED << preferences, keymap, saveDue >>
     ELSE IF ~MapHas(keymap, key)
     THEN /\ result' = "rejected"
          /\ sent' = << >>
          /\ keymap' = MapSet(keymap, key, Item("", FALSE, first, second))
          /\ UNCHANGED << preferences, saveDue >>
     ELSE /\ preferences' =
               [preferences EXCEPT !.keymap =
                  JsMap(MapSet(keymap, key, UpdatedItem(MapGet(keymap, key), first, second)))]
          /\ keymap' = MergedKeymap(preferences')
          /\ sent' = IF IsMenuKeymap(MapGet(keymap, key))
                     THEN << [key |-> key,
                              accelerator |->
                                GetMenuAcceleratorForKeymapItem(MapGet(keymap, key))] >>
                     ELSE << >>
          /\ saveDue' = TRUE
          /\ result' = "resolved"
  /\ UNCHANGED << tab, closed, stored >>
  /\ UNCHANGED << ctlVars, linkVars, imgVars, prefVars, folderVars >>

\* updateKeymap(key, firstShortcut, secondShortcut).  The merged keymap is
\* never null, so the first rejection cannot happen.
UpdateKeymap(key, first, second) ==
  /\ ~saveDue
  /\ call' = [CallOf("updateKeymap") EXCEPT !.key = key, !.first = first, !.second = second]
  /\ IF FindExistingShortcut(key, first, keymap) \/ ~MapHas(keymap, key)
     THEN /\ result' = "rejected"
          /\ sent' = << >>
          /\ UNCHANGED << preferences, keymap, saveDue >>
     ELSE /\ preferences' =
               [preferences EXCEPT !.keymap =
                  JsMap(MapSet(keymap, key, UpdatedItem(MapGet(keymap, key), first, second)))]
          /\ keymap' = MergedKeymap(preferences')
          /\ sent' = IF IsMenuKeymap(MapGet(keymap, key))
                     THEN << [key |-> key,
                              accelerator |->
                                GetMenuAcceleratorForKeymapItem(MapGet(keymap, key))] >>
                     ELSE << >>
          /\ saveDue' = TRUE
          /\ result' = "resolved"
  /\ UNCHANGED << tab, closed, stored >>
  /\ UNCHANGED << ctlVars, linkVars, imgVars, prefVars, folderVars >>

\* the null removeKeymap sends for the accelerator
NullAccelerator == [type |-> "null", key |-> Absent, modifiers |-> Absent]

\* removeKeymap(key)
RemoveKeymap(key) ==
  /\ ~saveDue
  /\ call' = [CallOf("removeKeymap") EXCEPT !.key = key]
  /\ IF ~MapHas(keymap, key)
     THEN /\ result' = "false"
          /\ sent' = << >>
          /\ UNCHANGED << preferences, keymap, saveDue >>
     ELSE /\ preferences' =
               [preferences EXCEPT !.keymap =
                  JsMap(MapSet(keymap, key,
                               [MapGet(keymap, key) EXCEPT
                                  !.shortcutMainStroke = UndefinedStroke,
                                  !.shortcutSecondStroke = UndefinedStroke]))]
          /\ keymap' = MergedKeymap(preferences')
          /\ sent' = IF IsMenuKeymap(MapGet(keymap, key))
                     THEN << [key |-> key, accelerator |-> NullAccelerator] >>
                     ELSE << >>
          /\ saveDue' = TRUE
          /\ result' = "true"
  /\ UNCHANGED << tab, closed, stored >>
  /\ UNCHANGED << ctlVars, linkVars, imgVars, prefVars, folderVars >>

\* resetKeymap()
ResetKeymap ==
  /\ ~saveDue
  /\ call' = CallOf("resetKeymap")
  /\ preferences' = [preferences EXCEPT !.keymap = JsMap(DefaultKeymap)]
  /\ keymap' = MergedKeymap(preferences')
  /\ sent' = << >>
  /\ saveDue' = TRUE
  /\ result' = "none"
  /\ UNCHANGED << tab, closed, stored >>
  /\ UNCHANGED << ctlVars, linkVars, imgVars, prefVars, folderVars >>

\* setPreferences({ 'general.noteSorting': sorting })
SetPreferences(sorting) ==
  /\ ~saveDue
  /\ call' = CallOf("setPreferences")
  /\ preferences' = [preferences EXCEPT !.noteSorting = sorting]
  /\ keymap' = MergedKeymap(preferences')
  /\ sent' = << >>
  /\ saveDue' = TRUE
  /\ result' = "none"
  /\ UNCHANGED << tab, closed, stored >>
  /\ UNCHANGED << ctlVars, linkVars, imgVars, prefVars, folderVars >>

\* togglePreferencesModal without setTab('about')
TogglePreferencesModal_KeepsTab ==
  /\ ~saveDue
  /\ call' = CallOf("togglePreferencesModal")
  /\ closed' = ~closed
  /\ sent' = << >>
  /\ result' = "none"
  /\ UNCHANGED << preferences, keymap, tab, stored, saveDue >>
  /\ UNCHANGED << ctlVars, linkVars, imgVars, prefVars, folderVars >>

\* togglePreferencesModal()
TogglePreferencesModal ==
  /\ ~saveDue
  /\ call' = CallOf("togglePreferencesModal")
  /\ IF closed
     THEN tab' = "about" /\ closed' = FALSE
     ELSE closed' = TRUE /\ UNCHANGED tab
  /\ sent' = << >>
  /\ result' = "none"
  /\ UNCHANGED << preferences, keymap, stored, saveDue >>
  /\ UNCHANGED << ctlVars, linkVars, imgVars, prefVars, folderVars >>

\* openTab(tab)
OpenTab(t) ==
  /\ ~saveDue
  /\ call' = [CallOf("openTab") EXCEPT !.tab = t]
  /\ tab' = t
  /\ closed' = IF closed THEN FALSE ELSE closed
  /\ sent' = << >>
  /\ result' = "none"
  /\ UNCHANGED << preferences, keymap, stored, saveDue >>
  /\ UNCHANGED << ctlVars, linkVars, imgVars, prefVars, folderVars >>

\* setClosed(value), as the modal calls it
SetClosed(value) ==
  /\ ~saveDue
  /\ call' = [CallOf("setClosed") EXCEPT !.closed = value]
  /\ closed' = value
  /\ sent' = << >>
  /\ result' = "none"
  /\ UNCHANGED << preferences, keymap, tab, stored, saveDue >>
  /\ UNCHANGED << ctlVars, linkVars, imgVars, prefVars, folderVars >>

StoreNext ==
  \/ SaveEffect
  \/ \E key \in CallKeys, first \in Shortcuts, second \in SecondShortcuts :
       UpdateKeymap(key, first, second)
  \/ \E key \in CallKeys : RemoveKeymap(key)
  \/ ResetKeymap
  \/ \E sorting \in StoredSortings : SetPreferences(sorting)
  \/ TogglePreferencesModal
  \/ \E t \in Tabs : OpenTab(t)
  \/ \E value \in BOOLEAN : SetClosed(value)

(***************************************************************************)
(* The notes memo of FolderDetail                                          *)
(* (src/src/components/organisms/FolderDetail.tsx).  A date or a title is  *)
(* its rank in the order localeCompare puts the strings in.                *)
(***************************************************************************)
MaxNotes == 2   \* most note ids of the storage

FolderNoteIds == 1..MaxNotes

Ranks == {1, 2}

\* storage.noteMap[noteId] of an id the map has no note for
MissingNote ==
  [id |-> 0, exists |-> FALSE, trashed |-> FALSE, createdAt |-> 0, updatedAt |-> 0, title |-> 0]

\* the NoteDoc values of one id
NoteDocs(id) ==
  {[id |-> id, exists |-> TRUE, trashed |-> t, createdAt |-> c, updatedAt |-> u, title |-> n] :
     t \in BOOLEAN, c \in Ranks, u \in Ranks, n \in Ranks}

\* a Set of note ids, in insertion order
NoteIdSets ==
  {s \in UNION {[1..n -> FolderNoteIds] : n \in 0..MaxNotes} :
     \A i, j \in 1..Len(s) : i # j => s[i] # s[j]}

\* the storages: the root folder holds a set of note ids, noteMap holds a
\* note for some ids
FolderStorages ==
  {[folderMap |-> [p \in {"/"} |-> [pathname |-> p, noteIdSet |-> ids]],
    noteMap |-> nm] :
     ids \in NoteIdSets,
     nm \in {f \in [FolderNoteIds -> UNION {NoteDocs(id) : id \in FolderNoteIds} \cup {MissingNote}] :
               \A id \in FolderNoteIds : f[id].exists => f[id].id = id}}

\* NoteSortingOptions, and a value that is none of them
NoteSortings ==
  {"created-date-asc", "created-date-dsc", "title-asc", "title-dsc",
   "updated-date-asc", "updated-date-dsc"}

SortingValues == NoteSortings \cup {"relevance"}

\* a.localeCompare(b)
LocaleCompare(a, b) == IF a < b THEN -1 ELSE IF a > b THEN 1 ELSE 0

\* the comparator with both date orders swapped
CompareNotes_DatesSwapped(a, b, sorting) ==
  CASE sorting = "created-date-asc" -> -LocaleCompare(a.createdAt, b.createdAt)
    [] sorting = "created-date-dsc" -> LocaleCompare(a.createdAt, b.createdAt)
    [] sorting = "title-asc" -> LocaleCompare(a.title, b.title)
    [] sorting = "title-dsc" -> -LocaleCompare(a.title, b.title)
    [] sorting = "updated-date-asc" -> -LocaleCompare(a.updatedAt, b.updatedAt)
    [] OTHER -> LocaleCompare(a.updatedAt, b.updatedAt)

\* the comparator handed to sort
CompareNotes(a, b, sorting) ==
  CASE sorting = "created-date-asc" -> LocaleCompare(a.createdAt, b.createdAt)
    [] sorting = "created-date-dsc" -> -LocaleCompare(a.createdAt, b.createdAt)
    [] sorting = "title-asc" -> LocaleCompare(a.title, b.title)
    [] sorting = "title-dsc" -> -LocaleCompare(a.title, b.title)
    [] sorting = "updated-date-asc" -> LocaleCompare(a.updatedAt, b.updatedAt)
    [] OTHER -> -LocaleCompare(a.updatedAt, b.updatedAt)

\* the reduce over [...folder.noteIdSet]
RECURSIVE CollectNotes(_, _, _)
CollectNotes(ids, noteMap, i) ==
  IF i > Len(ids) THEN << >>
  ELSE (IF noteMap[ids[i]].exists /\ ~noteMap[ids[i]].trashed
        THEN << noteMap[ids[i]] >>
        ELSE << >>) \o CollectNotes(ids, noteMap, i + 1)

\* Array.prototype.sort is stable: a note goes behind the notes before it
\* that the comparator does not put after it
InsertNote(sorted, note, sorting) ==
  LET k == Cardinality({i \in 1..Len(sorted) : CompareNotes(sorted[i], note, sorting) <= 0})
  IN  SubSeq(sorted, 1, k) \o << note >> \o SubSeq(sorted, k + 1, Len(sorted))

RECURSIVE SortNotes(_, _, _)
SortNotes(list, n, sorting) ==
  IF n = 0 THEN << >>
  ELSE InsertNote(SortNotes(list, n - 1, sorting), list[n], sorting)

\* the notes memo
Notes(st, pathname, sorting) ==
  IF pathname \notin DOMAIN st.folderMap THEN << >>
  ELSE LET collected == CollectNotes(st.folderMap[pathname].noteIdSet, st.noteMap, 1)
       IN  SortNotes(collected, Len(collected), sorting)

InitFolder ==
  /\ storage \in FolderStorages
  /\ folderPathname \in {"/", "/gone"}
  /\ noteSorting \in SortingValues
  /\ notes = << >>
  /\ listed = FALSE

\* FolderDetail renders
RenderFolderDetail ==
  /\ ~listed
  /\ notes' = Notes(storage, folderPathname, noteSorting)
  /\ listed' = TRUE
  /\ UNCHANGED << storage, folderPathname, noteSorting >>
  /\ UNCHANGED << ctlVars, linkVars, imgVars, prefVars, storeVars >>

FolderNext == RenderFolderDetail

(***************************************************************************)
(* Specifications.  Each one runs one part of the component and holds the  *)
(* variables of the other parts at the values below.                       *)
(***************************************************************************)
CtlQuiet ==
  /\ content = <<>> /\ codeBlockTheme = Undefined
  /\ theme = "light" /\ style = ""
  /\ mounted = TRUE /\ rendering = FALSE
  /\ renderedContent = NoTree
  /\ previousContentRef = <<>> /\ previousThemeRef = ""
  /\ checkboxIndexRef = 0 /\ checkboxes = <<>>
  /\ runs = <<>> /\ effectPending = TRUE
  /\ started = 0 /\ events = 0 /\ ev = "mount"

LinkQuiet ==
  /\ activeStorageId = NoStorage /\ storageMap = <<>>
  /\ clicks = <<>> /\ calls = <<>>
  /\ replaced = <<>> /\ toasts = <<>> /\ opened = <<>>

ImgQuiet ==
  /\ imgSrc = NoSrc /\ attachmentMap = {} /\ imgElement = NoElement

PrefQuiet ==
  /\ prefsArg = EmptyPreferences /\ localStorageItem = NoItem
  /\ loadedPreferences = EmptyPreferences /\ pstep = "init"

StoreQuiet ==
  /\ preferences = EmptyPreferences /\ keymap = << >>
  /\ tab = "about" /\ closed = TRUE /\ stored = NoItem
  /\ sent = << >> /\ saveDue = TRUE /\ call = NoCall /\ result = "none"

FolderQuiet ==
  /\ storage = [folderMap |-> [p \in {"/"} |-> [pathname |-> p, noteIdSet |-> << >>]],
                noteMap |-> [id \in FolderNoteIds |-> MissingNote]]
  /\ folderPathname = "/" /\ noteSorting = "updated-date-dsc"
  /\ notes = << >> /\ listed = FALSE

AppQuiet == PrefQuiet /\ StoreQuiet /\ FolderQuiet

Init == InitCtl /\ LinkQuiet /\ ImgQuiet /\ AppQuiet

Next == CtlNext

Spec == Init /\ [][Next]_vars

LinkInit == CtlQuiet /\ InitLink /\ ImgQuiet /\ AppQuiet

LinkSpec == LinkInit /\ [][LinkNext]_vars

ImgInit == CtlQuiet /\ LinkQuiet /\ InitImg /\ AppQuiet

ImgSpec == ImgInit /\ [][ImgNext]_vars

MdQuiet == CtlQuiet /\ LinkQuiet /\ ImgQuiet

PrefInit == MdQuiet /\ InitPref /\ StoreQuiet /\ FolderQuiet

PrefSpec == PrefInit /\ [][PrefNext]_vars

StoreInit == MdQuiet /\ PrefQuiet /\ InitStore /\ FolderQuiet

StoreSpec == StoreInit /\ [][StoreNext]_vars

FolderInit == MdQuiet /\ PrefQuiet /\ StoreQuiet /\ InitFolder

FolderSpec == FolderInit /\ [][FolderNext]_vars

(***************************************************************************)
(* Properties of the invalidation controller.                              *)
(***************************************************************************)
Committed == << previousContentRef, previousThemeRef >>

Requested == << content, codeBlockTheme >>

\* C1: at most one pipeline run (renderContent between its start and its
\* completion) is in progress, in every reachable state.
C1_AtMostOneInFlight == Len(runs) <= 1

\* C2: a request made while the flag is false with (content, codeBlockTheme)
\* equal to the committed pair starts no run and leaves the render state
\* unchanged; the request that follows a change of theme or style alone
\* starts no run.
C2_Idempotence ==
  [][ /\ (ev' = "request" /\ ~rendering /\ Requested = Committed)
         => /\ started' = started
            /\ runs' = runs
            /\ rendering' = rendering
            /\ Committed' = Committed
      /\ (ev \in {"theme", "style"} /\ ev' = "request")
         => (started' = started /\ runs' = runs) ]_vars

\* a request found the pair already rendered and displayed, and did nothing
C2_Witness ==
  /\ ev = "request" /\ ~rendering /\ Requested = Committed
  /\ started = 1 /\ runs = <<>>
  /\ renderedContent.src = content /\ renderedContent.theme = codeBlockTheme
  /\ content # <<>>

\* C3: a request made while the flag is true starts no run and leaves the
\* committed pair and the runs in flight unchanged, whatever pair it carries.
C3_DroppedWhileRendering ==
  [][ (ev' = "request" /\ rendering)
         => /\ started' = started
            /\ runs' = runs
            /\ rendering' = rendering
            /\ Committed' = Committed ]_vars

\* a request carrying another pair than the committed one was dropped
C3_Witness ==
  ev = "request" /\ rendering /\ Requested # Committed /\ started >= 1

\* C4: a 'codemirror-mode-load' signal starts exactly one run, over the
\* committed source, whether or not the requested pair is the committed one.
C4_SignalForcesRun ==
  [][ ev' = "signal"
         => /\ started' = started + 1
            /\ Len(runs') = Len(runs) + 1
            /\ SubSeq(runs', 1, Len(runs)) = runs
            /\ runs'[Len(runs')].src = previousContentRef ]_vars

\* a signal started a run although the displayed tree is the rendering of the
\* requested pair
C4_Witness ==
  /\ ev = "signal" /\ Requested = Committed
  /\ renderedContent.src = content /\ renderedContent.theme = codeBlockTheme
  /\ renderedContent.stages # <<>>
  /\ Len(runs) = 1 /\ runs[1].src = previousContentRef

\* C5: every completion on the mounted view clears the flag and displays the
\* tree of the run that completed, which is the rendering of the committed
\* pair as it stands at the completion.
C5_CompletionDisplaysCommitted ==
  [][ (ev' = "complete" /\ mounted)
         => /\ ~rendering'
            /\ \E i \in 1..Len(runs) :
                 renderedContent' = runs[i] /\ runs' = RemoveAt(runs, i)
            /\ renderedContent'.src = previousContentRef'
            /\ renderedContent'.theme = previousThemeRef' ]_vars

\* C6: the checkboxes of the output a render pass displays carry the indices
\* 0..n-1 in document order, whatever passes came before or overlap it.
C6_CheckboxIndices ==
  (mounted /\ ev = "complete")
    => checkboxes =
         [k \in 1..CountBoxes(renderedContent.src, Len(renderedContent.src)) |-> k - 1]

\* a plugin occurs among the stages a run executed
Occurs(stages, name) == \E k \in 1..Len(stages) : stages[k] = name

\* no occurrence of `earlier' at or after an occurrence of `later'
AllAfter(stages, later, earlier) ==
  \A k \in 1..Len(stages) :
    stages[k] = later => \A j \in k..Len(stages) : stages[j] # earlier

SanitizedAfterBridge(tree) ==
  /\ Occurs(tree.stages, "rehypeSanitize")
  /\ Occurs(tree.stages, "remarkRehype")
  /\ Occurs(tree.stages, "rehypeRaw")
  /\ AllAfter(tree.stages, "rehypeSanitize", "remarkRehype")
  /\ AllAfter(tree.stages, "rehypeSanitize", "rehypeRaw")

\* C7: every pipeline run, whatever its source and theme, executes the
\* sanitizer, and executes it after remarkRehype and rehypeRaw.
C7_SanitizerAlwaysAfterBridge ==
  /\ \A i \in 1..Len(runs) : SanitizedAfterBridge(runs[i])
  /\ renderedContent # NoTree => SanitizedAfterBridge(renderedContent)
  /\ (started > 0 /\ mounted) => (runs # <<>> \/ renderedContent # NoTree)

\* a run is displayed while another is in flight
C7_Witness == renderedContent # NoTree /\ runs # <<>>

(***************************************************************************)
(* Properties of the anchor and image handlers.                            *)
(***************************************************************************)
\* the storages of a map that hold a note
Holders(smap, noteKey) == {i \in 1..Len(smap) : noteKey \in smap[i].noteMap}

ActiveHolds(smap, noteKey) ==
  \E i \in Holders(smap, noteKey) : smap[i].id = activeStorageId

FirstHolder(smap, noteKey) ==
  smap[CHOOSE i \in Holders(smap, noteKey) :
         \A j \in Holders(smap, noteKey) : i <= j].id

\* C8: the storage handed to getNotePathname is the active storage whenever
\* the active storage holds the note, otherwise the first storage that
\* holds it, and the active storage when none does.
C8_PrefersActiveStorage ==
  \A k \in 1..Len(calls) :
    LET noteKey == PrependNoteIdPrefix(calls[k].noteId) IN
      calls[k].storage =
        IF ActiveHolds(storageMap, noteKey) THEN activeStorageId
        ELSE IF Holders(storageMap, noteKey) # {}
             THEN FirstHolder(storageMap, noteKey)
             ELSE activeStorageId

\* number of entries of a log made for click c
CountFor(log, c) == Cardinality({i \in 1..Len(log) : log[i].click = c})

CallsFor(c) == {k \in 1..Len(calls) : calls[k].click = c}

\* C9: for every click on a note link, navigation and notification exclude
\* each other; a click without active storage, or whose lookup resolved to
\* no pathname or was rejected, made one notification and no navigation; a
\* navigation was made exactly when there is an active storage and the
\* lookup resolved to a pathname; nothing happens before the lookup settles.
C9_NavigateOrNotify ==
  \A c \in 1..Len(clicks) :
    IsNoteLinkId(clicks[c]) =>
      LET navs == CountFor(replaced, c)
          msgs == CountFor(toasts, c)
      IN /\ navs + msgs <= 1
         /\ CountFor(opened, c) = 0
         /\ IF activeStorageId = NoStorage
            THEN navs = 0 /\ msgs = 1 /\ CallsFor(c) = {}
            ELSE /\ Cardinality(CallsFor(c)) = 1
                 /\ \A k \in CallsFor(c) :
                      /\ calls[k].outcome = "pending" => (navs = 0 /\ msgs = 0)
                      /\ calls[k].outcome = "pathname" => (navs = 1 /\ msgs = 0)
                      /\ calls[k].outcome \in {"none", "reject"} => (navs = 0 /\ msgs = 1)

\* one click navigated, another one's lookup resolved to no pathname
C9_Witness ==
  /\ \E k \in 1..Len(calls) : calls[k].outcome = "pathname"
  /\ \E k \in 1..Len(calls) : calls[k].outcome = "none"
  /\ Len(replaced) = 1 /\ Len(toasts) = 1

\* C10: an img node is rendered as the attachment-backed image exactly when
\* src is present, holds no '/' and is a key of the attachment map; otherwise
\* as the generic expandable image with the original src.
C10_ImageDispatch ==
  imgElement # NoElement =>
    IF imgSrc # NoSrc /\ ~HasSlash(imgSrc) /\ imgSrc \in attachmentMap
    THEN imgElement.component = "AttachmentImage"
    ELSE imgElement.component = "ExpandableImage" /\ imgElement.src = imgSrc

(***************************************************************************)
(* Further properties of the invalidation controller.                      *)
(***************************************************************************)
\* the mounted view has nothing left to do: no run in flight, no effect due
Settled == mounted /\ runs = <<>> /\ ~effectPending

\* C11: once the props have stopped changing and every started run has
\* completed, the view is idle and displays the rendering of the latest
\* (content, codeBlockTheme).
C11_SettledIsFresh ==
  Settled => /\ ~rendering
             /\ renderedContent.src = content
             /\ renderedContent.theme = codeBlockTheme

\* C12: on the mounted view the rendering flag is true exactly when a run has
\* started and not yet completed.
C12_FlagIsInFlight == mounted => (rendering <=> runs # <<>>)

\* the stages of a run from the sanitizer on
AfterSanitizer(stages) ==
  LET k == CHOOSE i \in 1..Len(stages) : stages[i] = "rehypeSanitize"
  IN SubSeq(stages, k + 1, Len(stages))

\* every tree a run produced or is producing
Trees ==
  {runs[i] : i \in 1..Len(runs)} \cup
    (IF renderedContent # NoTree THEN {renderedContent} ELSE {})

\* C13 as claimed: the dispatcher (rehypeReact) is the stage right after the
\* sanitizer, so the tree it receives is the sanitizer's output.
C13_DispatcherGetsSanitizerOutput ==
  \A t \in Trees : AfterSanitizer(t.stages) = << "rehypeReact" >>

\* C13 as amended: after the sanitizer only the math renderer, the code
\* highlighter and the mermaid stage run before the dispatcher; the parser,
\* the syntax-tree transforms, the bridge and the raw-markup merge, which
\* carry the content of the source, all run before the sanitizer.
C13_OnlyRenderersAfterSanitizer ==
  \A t \in Trees :
    AfterSanitizer(t.stages)
      = << "rehypeKatex", "rehypeCodeMirror", "rehypeMermaid", "rehypeReact" >>

\* a run has been displayed
C13_Witness == renderedContent # NoTree /\ ev = "complete"

\* the position of a plugin among the stages of a run (0: it did not run)
StageIndex(stages, name) ==
  IF Occurs(stages, name)
  THEN CHOOSE i \in 1..Len(stages) : stages[i] = name
  ELSE 0

Increasing(stages, names) ==
  \A i \in 1..(Len(names) - 1) :
    /\ StageIndex(stages, names[i]) > 0
    /\ StageIndex(stages, names[i]) < StageIndex(stages, names[i + 1])

\* C14: every run executes emoji expansion, admonitions, math, the remote
\* diagram stage, charts, slug assignment and position annotation in that
\* order, all of them before the hypertext bridge.
C14_TransformsBeforeBridge ==
  \A t \in Trees :
    Increasing(t.stages,
      << "remarkEmoji", "remarkAdmonitions", "remarkMath", "remarkPlantUML",
         "remarkCharts", "remarkSlug", "rehypePosition", "remarkRehype" >>)

\* C15: once the view is unmounted no run starts, and the completion of a
\* run that was in flight changes neither the flag nor the displayed output.
C15_UnmountFreezes ==
  [][ ~mounted
        => /\ started' = started
           /\ rendering' = rendering
           /\ renderedContent' = renderedContent
           /\ checkboxes' = checkboxes
           /\ ~mounted' ]_vars

\* a run that was in flight at the unmount has completed
C15_Witness ==
  ~mounted /\ ev = "complete" /\ rendering /\ runs = <<>> /\ started >= 1


(***************************************************************************)
(* Properties of the preferences store.                                    *)
(***************************************************************************)
\* C16: persistence round trip.  For preferences whose keymap is null or a
\* Map, the empty Map included, loadPreferences of what savePreferences
\* wrote is the saved value, the keymap a Map with the same entries (or
\* null) again; of an absent or invalid stored text it is the empty object.
C16_PersistenceRoundTrip ==
  /\ pstep = "reloaded" =>
       /\ loadedPreferences = prefsArg
       /\ loadedPreferences.keymap.type \in {"Map", "null"}
  /\ pstep = "loaded" => loadedPreferences = EmptyPreferences

\* The round trip of the preferences whose keymap is not the empty Map.
C16_RoundTripUnlessEmptyMap ==
  /\ (pstep = "reloaded" /\ prefsArg.keymap # JsMap(<< >>)) =>
       loadedPreferences = prefsArg
  /\ pstep = "loaded" => loadedPreferences = EmptyPreferences

\* C17: updateKeymap is all-or-nothing.  A call whose first shortcut is in
\* use by an existing entry, or whose key has no entry, rejects and leaves
\* the keymap and the preferences as they were and sends no message; a call
\* that resolves changes the entry of its key only, keeps its description
\* and isMenuType, writes the old main stroke overridden by the new one, and
\* an undefined second stroke when none was supplied.
C17_UpdateKeymapAllOrNothing ==
  [][ call'.op = "updateKeymap" =>
        /\ (FindExistingShortcut(call'.key, call'.first, keymap)
              \/ ~MapHas(keymap, call'.key)) => result' = "rejected"
        /\ result' = "rejected" =>
             /\ keymap' = keymap
             /\ preferences' = preferences
             /\ sent' = << >>
        /\ result' = "resolved" =>
             /\ MapHas(keymap, call'.key)
             /\ Len(keymap') = Len(keymap)
             /\ \A i \in 1..Len(keymap) :
                  /\ keymap'[i].key = keymap[i].key
                  /\ keymap[i].key # call'.key => keymap'[i] = keymap[i]
             /\ MapGet(keymap', call'.key).description
                  = MapGet(keymap, call'.key).description
             /\ MapGet(keymap', call'.key).isMenuType
                  = MapGet(keymap, call'.key).isMenuType
             /\ MapGet(keymap', call'.key).shortcutMainStroke
                  = Spread(MapGet(keymap, call'.key).shortcutMainStroke, call'.first)
             /\ call'.second.type = Undefined =>
                  MapGet(keymap', call'.key).shortcutSecondStroke = UndefinedStroke
             /\ preferences'.keymap = JsMap(keymap')
             /\ preferences'.noteSorting = preferences.noteSorting
    ]_vars

\* an update resolved that supplied no modifiers and no second stroke: the
\* entry kept the modifiers of its old main stroke
C17_Witness ==
  /\ call.op = "updateKeymap" /\ result = "resolved"
  /\ call.first.modifiers = Absent /\ call.second.type = Undefined
  /\ MapGet(keymap, call.key).shortcutMainStroke = Stroke(call.first.key, "ctrl")

\* C18: the preferences modal.  togglePreferencesModal opens a closed modal
\* on the tab 'about' and closes an open one leaving the tab as it is;
\* openTab(t) ends with the tab t and the modal open.
C18_ModalStateMachine ==
  [][ /\ (call'.op = "togglePreferencesModal" /\ closed) =>
           (~closed' /\ tab' = "about")
      /\ (call'.op = "togglePreferencesModal" /\ ~closed) =>
           (closed' /\ tab' = tab)
      /\ call'.op = "openTab" => (tab' = call'.tab /\ ~closed')
    ]_vars

\* the modal was opened by the toggle
C18_Witness == call.op = "togglePreferencesModal" /\ ~closed /\ tab = "about"

(***************************************************************************)
(* Properties of the folder detail.                                        *)
(***************************************************************************)
\* the ids of the notes the folder lists
Eligible ==
  IF folderPathname \in DOMAIN storage.folderMap
  THEN LET ids == storage.folderMap[folderPathname].noteIdSet
       IN  {id \in {ids[i] : i \in 1..Len(ids)} :
              storage.noteMap[id].exists /\ ~storage.noteMap[id].trashed}
  ELSE {}

\* a may stand before b under the selected sorting
InOrder(a, b) ==
  CASE noteSorting = "created-date-asc" -> a.createdAt <= b.createdAt
    [] noteSorting = "created-date-dsc" -> a.createdAt >= b.createdAt
    [] noteSorting = "title-asc" -> a.title <= b.title
    [] noteSorting = "title-dsc" -> a.title >= b.title
    [] noteSorting = "updated-date-asc" -> a.updatedAt <= b.updatedAt
    [] OTHER -> a.updatedAt >= b.updatedAt

\* C19: the folder note listing.  The listed notes are the notes of
\* storage.noteMap whose id is in the folder's noteIdSet and that are not
\* trashed (none when the folder does not exist), each once, in the order
\* of the selected sorting; a sorting that is none of the options orders by
\* updated date, descending.
C19_FolderNoteListing ==
  listed =>
    /\ {notes[i].id : i \in 1..Len(notes)} = Eligible
    /\ Len(notes) = Cardinality(Eligible)
    /\ \A i \in 1..Len(notes) : notes[i] = storage.noteMap[notes[i].id]
    /\ \A i \in 1..Len(notes) : \A j \in 1..Len(notes) :
         i < j => InOrder(notes[i], notes[j])

\* two notes listed under an unrecognised sorting, in the reverse of the
\* order of their ids in the folder's noteIdSet
C19_Witness ==
  /\ listed /\ noteSorting = "relevance" /\ Len(notes) = 2
  /\ notes[1].updatedAt > notes[2].updatedAt
  /\ storage.folderMap[folderPathname].noteIdSet = << notes[2].id, notes[1].id >>

=============================================================================
